---- MODULE Spec2Model ----
(***************************************************************************)
(* workflow-manager: the scheduling engine (scheduleTasks and the two      *)
(* emission loops) together with the task package's Enqueuer               *)
(* implementations (GCP PubSub and AWS SNS).                               *)
(*                                                                         *)
(* Strings are sequences of one-character strings, so that truncation,     *)
(* character replacement and formatting are computed as the code computes  *)
(* them.  Instants are seconds since the zero time (January 1, year 1,     *)
(* 00:00 UTC), which is the origin time.Truncate rounds against.           *)
(***************************************************************************)
EXTENDS Integers, Sequences, FiniteSets, TLC

\* ------------------------------------------------------------------ time

Minute == 60
Hour == 60 * Minute
Day == 24 * Hour

\* ---------------------------------------------------------------- strings

Digits == <<"0", "1", "2", "3", "4", "5", "6", "7", "8", "9">>
Lower == <<"a", "b", "c", "d", "e", "f", "g", "h", "i", "j", "k", "l", "m",
           "n", "o", "p", "q", "r", "s", "t", "u", "v", "w", "x", "y", "z">>
Upper == <<"A", "B", "C", "D", "E", "F", "G", "H", "I", "J", "K", "L", "M",
           "N", "O", "P", "Q", "R", "S", "T", "U", "V", "W", "X", "Y", "Z">>

Range(s) == {s[i] : i \in DOMAIN s}

Take(s, n) == SubSeq(s, 1, n)

RECURSIVE ConcatAll(_)
ConcatAll(ss) == IF ss = <<>> THEN <<>> ELSE Head(ss) \o ConcatAll(Tail(ss))

\* strings.ReplaceAll(s, old, new) for single-character old and a new string
ReplaceAll(s, old, new) ==
    ConcatAll([i \in DOMAIN s |-> IF s[i] = old THEN new ELSE <<s[i]>>])

\* strings.ToLower on ASCII
ToLowerChar(c) ==
    IF c \in Range(Upper)
    THEN Lower[CHOOSE i \in DOMAIN Upper : Upper[i] = c]
    ELSE c
ToLower(s) == [i \in DOMAIN s |-> ToLowerChar(s[i])]

TwoDigits(n) == <<Digits[((n \div 10) % 10) + 1], Digits[(n % 10) + 1]>>

\* time.Time.Format with a minute-precision layout whose fields are joined by
\* sep: the seconds of t are dropped.  Instants of the model lie in January
\* of year 1.
stringWithFormat(t, sep) ==
    <<"0", "0", "0", "1">> \o sep \o <<"0", "1">> \o sep
        \o TwoDigits(t \div Day + 1) \o sep
        \o TwoDigits((t \div Hour) % 24) \o sep
        \o TwoDigits((t \div Minute) % 60)

\* fmtTime: "2006/01/02/15/04"
fmtTime(t) == stringWithFormat(t, <<"/">>)

\* Timestamp.MarkerString: "2006-01-02-15-04"
MarkerString(t) == stringWithFormat(t, <<"-">>)

\* ------------------------------------------------------------- job names

\* the characters the regular expression [^A-Za-z0-9-] leaves alone
JobNameSafe == Range(Upper) \cup Range(Lower) \cup Range(Digits) \cup {"-"}

aggregationJobNameFragment(aggregationID, maxLength) ==
    LET idForJobName ==
            [i \in DOMAIN aggregationID |->
                IF aggregationID[i] \in JobNameSafe THEN aggregationID[i] ELSE "-"]
        cut == IF Len(idForJobName) > maxLength
               THEN Take(idForJobName, maxLength)
               ELSE idForJobName
    IN  ToLower(cut)

IntakeFragmentLength == 27
AggregationFragmentLength == 30
BatchIDFragmentLength == 16

\* path.ID with the '-'es removed, before it is sliced
BatchIDStripped(path) == ReplaceAll(path.ID, "-", <<>>)

\* the slice expression [:16] panics when the stripped ID is shorter
intakeJobNamePanics(path) == Len(BatchIDStripped(path)) < BatchIDFragmentLength

\* a name without the batch UUID fragment
intakeJobNameWithoutBatchID(path) ==
    <<"i", "-">>
        \o aggregationJobNameFragment(path.AggregationID, IntakeFragmentLength)
        \o <<"-">> \o ReplaceAll(fmtTime(path.Time), "/", <<"-">>)

intakeJobNameForBatchPath(path) ==
    <<"i", "-">>
        \o aggregationJobNameFragment(path.AggregationID, IntakeFragmentLength)
        \o <<"-">> \o Take(BatchIDStripped(path), BatchIDFragmentLength)
        \o <<"-">> \o ReplaceAll(fmtTime(path.Time), "/", <<"-">>)

aggregationTaskName(aggregationID, begin) ==
    <<"a", "-">>
        \o aggregationJobNameFragment(aggregationID, AggregationFragmentLength)
        \o <<"-">> \o ReplaceAll(fmtTime(begin), "/", <<"-">>)

\* ---------------------------------------------------------------- markers

IntakeBatchMarker(i) ==
    <<"i", "n", "t", "a", "k", "e", "-">> \o i.AggregationID
        \o <<"-">> \o MarkerString(i.Date) \o <<"-">> \o i.BatchID

\* a marker that also names the number of batches of the task
AggregationMarkerWithBatchCount(a) ==
    <<"a", "g", "g", "r", "e", "g", "a", "t", "e", "-">> \o a.AggregationID
        \o <<"-">> \o MarkerString(a.AggregationStart)
        \o <<"-">> \o MarkerString(a.AggregationEnd)
        \o <<"-">> \o TwoDigits(Cardinality(a.Batches))

AggregationMarker(a) ==
    <<"a", "g", "g", "r", "e", "g", "a", "t", "e", "-">> \o a.AggregationID
        \o <<"-">> \o MarkerString(a.AggregationStart)
        \o <<"-">> \o MarkerString(a.AggregationEnd)

\* -------------------------------------------------------------- intervals

\* time.Time.Truncate(d): t rounded down to a multiple of d since the zero
\* time; for d <= 0 the instant is returned unchanged
Truncate(t, d) == IF d <= 0 THEN t ELSE t - (t % d)

\* a window that ends at Now - grace, not at a multiple of the period
aggregationIntervalUnaligned(clockNow, aggregationPeriod, gracePeriod) ==
    [begin |-> clockNow - gracePeriod - aggregationPeriod,
     end |-> clockNow - gracePeriod]

aggregationInterval(clockNow, aggregationPeriod, gracePeriod) ==
    LET end == Truncate(clockNow - gracePeriod, aggregationPeriod)
    IN  [begin |-> end - aggregationPeriod, end |-> end]

\* ----------------------------------------------------- the bounded world

MaxRuns == 2          \* scheduler invocations started in one behaviour
MaxTicks == 1         \* advances of the clock in one behaviour

\* flag defaults: --intake-max-age, --aggregation-period, --grace-period
maxAge == 1 * Hour
aggregationPeriod == 3 * Hour
gracePeriod == 1 * Hour

\* the look-ahead of the intake window: 24 * time.Hour
IntakeLookAhead == 24 * Hour

StartOfClock == 10 * Hour + 30 * Minute
ClockStep == 90 * Minute

Agg1 == <<"a", "g", "g", "1">>
Agg2 == <<"a", "g", "g", "2">>

\* a UUID whose eighth character is tag
UUID(tag) ==
    <<"0", "f", "0", "f", "0", "f", "0", tag, "-", "0", "f", "0", "f", "-",
      "0", "f", "0", "f", "-", "0", "f", "0", "f", "-",
      "0", "f", "0", "f", "0", "f", "0", "f", "0", "f", "0", "f">>

ShortID == <<"u", "u", "i", "d", "-", "A", "A", "A", "A">>

\* a UUID that differs from UUID("1") in its last character only
TwinID == [UUID("1") EXCEPT ![Len(UUID("1"))] = "e"]

\* batch descriptors, as batchpath.ReadyBatches returns them for the ready
\* triplets of a listing; a listing is held as the set of its keys
BatchPaths ==
    [b1 |-> [AggregationID |-> Agg1, Time |-> 10 * Hour, ID |-> UUID("1")],
     b2 |-> [AggregationID |-> Agg1, Time |-> 10 * Hour, ID |-> UUID("2")],
     b3 |-> [AggregationID |-> Agg1, Time |-> 8 * Hour, ID |-> UUID("3")],
     bs |-> [AggregationID |-> Agg1, Time |-> 10 * Hour, ID |-> ShortID],
     v1 |-> [AggregationID |-> Agg1, Time |-> 7 * Hour, ID |-> UUID("4")],
     v2 |-> [AggregationID |-> Agg1, Time |-> 10 * Hour, ID |-> UUID("5")],
     be |-> [AggregationID |-> Agg1, Time |-> StartOfClock - maxAge,
             ID |-> UUID("6")],
     bf |-> [AggregationID |-> Agg1, Time |-> StartOfClock + IntakeLookAhead,
             ID |-> UUID("7")],
     v3 |-> [AggregationID |-> Agg1, Time |-> 6 * Hour, ID |-> UUID("8")],
     v4 |-> [AggregationID |-> Agg1, Time |-> 9 * Hour, ID |-> UUID("9")],
     v5 |-> [AggregationID |-> Agg1, Time |-> 7 * Hour, ID |-> UUID("a")],
     w1 |-> [AggregationID |-> Agg2, Time |-> 7 * Hour, ID |-> UUID("b")],
     bt |-> [AggregationID |-> Agg1, Time |-> 10 * Hour, ID |-> TwinID],
     x1 |-> [AggregationID |-> Agg2, Time |-> 7 * Hour, ID |-> UUID("4")]]

Path(k) == BatchPaths[k]

\* a closed interval: a batch at exactly end is kept
inIntervalClosed(t, inter) == ~(t < inter.begin) /\ ~(inter.end < t)

\* !bp.Time.Before(inter.begin) && bp.Time.Before(inter.end)
inInterval(t, inter) == ~(t < inter.begin) /\ t < inter.end

\* a filter that keeps every batch
withinIntervalAll(batches, inter) == batches

\* withinInterval returns the subset of batches that are within the interval
withinInterval(batches, inter) ==
    {k \in batches : inInterval(Path(k).Time, inter)}

Inst == {1, 2}

\* ------------------------------------------------------------------ tasks

\* task.IntakeBatch for a batch; the state holds the batch's key
IntakeTask(k) == [type |-> "intake", batch |-> k]

IntakeBatchOf(task) ==
    [AggregationID |-> Path(task.batch).AggregationID,
     BatchID |-> Path(task.batch).ID,
     Date |-> Path(task.batch).Time]

\* task.Aggregation; Batches is held as the set of the batches' keys
AggregationTask(aggregationID, inter, keys) ==
    [type |-> "aggregate", AggregationID |-> aggregationID,
     AggregationStart |-> inter.begin, AggregationEnd |-> inter.end,
     Batches |-> keys]

\* Task.Marker()
Marker(task) ==
    IF task.type = "intake"
    THEN IntakeBatchMarker(IntakeBatchOf(task))
    ELSE AggregationMarker(task)

\* the name of the Kubernetes job of a task
TaskName(task) ==
    IF task.type = "intake"
    THEN intakeJobNameForBatchPath(Path(task.batch))
    ELSE aggregationTaskName(task.AggregationID, task.AggregationStart)

\* ------------------------------------------------------------------ state

VARIABLES
    now,                  \* what clock.Now() returns
    ticks,                \* advances of the clock so far
    kind,                 \* --task-queue-kind
    dryRun,               \* --dry-run
    concurrent,           \* whether invocations may overlap in this world
    intakeFiles,          \* ready batches of the ingestor bucket
    ownValidationFiles,   \* ready validations of the own validation bucket
    peerValidationFiles,  \* ready validations of the peer validation bucket
    bucketObjects,        \* the task-markers/ objects of the own validation bucket
    existingJobs,         \* names of the jobs kubernetesClient.ListJobs() returns
    pc,                   \* where each instance is in main / scheduleTasks
    run,                  \* the number of the invocation an instance executes
    taskMarkers,          \* scheduleTasks: the set built from the listing
    intakeWindow,         \* scheduleTasks: the interval of the intake batches
    currentIntakeBatches, \* scheduleTasks: the intake batches within the window
    inter,                \* scheduleTasks: the aggregation interval
    batchesByID,          \* enqueueAggregationTasks: the groups it was called with
    readyBatches,         \* enqueueIntakeTasks: the batches still to visit
    aggregationMap,       \* enqueueAggregationTasks: the groups still to visit
    goroutines,           \* Enqueue calls whose publish or completion is pending
    waitGroup,            \* the WaitGroup counter of each enqueuer
    intakesStarted,       \* monitor counter
    aggregationsStarted,  \* monitor counter
    runs,                 \* invocations started so far
    overlapped,           \* an invocation started while another was running
    enqueued,             \* <<run, task>>: calls of Enqueue
    published,            \* publishes the transport answered, and its answers
    completions,          \* invocations of completion functions
    markerWrites,         \* calls of WriteTaskMarker
    exits,                \* how each invocation ended
    intervalCall,         \* a call of aggregationInterval: its arguments and result
    nameCall              \* the job names built for a batch, and what they are

vars == <<now, ticks, kind, dryRun, concurrent, intakeFiles, ownValidationFiles,
          peerValidationFiles, bucketObjects, existingJobs, pc, run, taskMarkers,
          intakeWindow, currentIntakeBatches, inter, batchesByID, readyBatches,
          aggregationMap, goroutines, waitGroup, intakesStarted,
          aggregationsStarted, runs, overlapped, enqueued, published,
          completions, markerWrites, exits, intervalCall, nameCall>>

\* what no step of an invocation changes
fixed == <<kind, dryRun, concurrent, intakeFiles, ownValidationFiles,
           peerValidationFiles, existingJobs, intervalCall, nameCall>>
clock == <<now, ticks>>
counters == <<intakesStarted, aggregationsStarted>>
snapshot ==
    <<taskMarkers, intakeWindow, currentIntakeBatches, inter, batchesByID>>

Active == {"intake", "aggregation", "stopIntake", "stopAggregation"}

\* all orders in which a finite set can be listed
Orders(S) ==
    {f \in [1..Cardinality(S) -> S] : \A i, j \in DOMAIN f : i # j => f[i] # f[j]}

\* ----------------------------------------------------------- object store

TaskMarkerPrefix ==
    <<"t", "a", "s", "k", "-", "m", "a", "r", "k", "e", "r", "s", "/">>

HasPrefix(s, prefix) ==
    Len(s) >= Len(prefix) /\ Take(s, Len(prefix)) = prefix

TrimPrefix(s, prefix) ==
    IF HasPrefix(s, prefix) THEN SubSeq(s, Len(prefix) + 1, Len(s)) ELSE s

\* the listing's task-markers/ keys, kept whole
TaskMarkerSetUntrimmed(objects) == {x \in objects : HasPrefix(x, TaskMarkerPrefix)}

\* the marker set scheduleTasks builds from the own validation listing
TaskMarkerSet(objects) ==
    {TrimPrefix(o, TaskMarkerPrefix) : o \in {x \in objects : HasPrefix(x, TaskMarkerPrefix)}}

\* what WriteTaskMarker can return: in dry-run mode it is a no-op
WriteResults == IF dryRun THEN {"dry"} ELSE {"ok", "err"}

\* the bucket after WriteTaskMarker(marker) returned res
WriteTaskMarker(objects, marker, res) ==
    IF res = "ok" THEN objects \cup {TaskMarkerPrefix \o marker} ELSE objects

\* ------------------------------------------------------------- enqueuers

\* an Enqueue that publishes in a dry run as well
PublishOutcomesIgnoringDryRun == {"marshalErr", "ok", "fail"}

\* the outcomes of json.Marshal and of the transport's publish
PublishOutcomes ==
    IF dryRun THEN {"marshalErr", "dry"} ELSE {"marshalErr", "ok", "fail"}

\* GCPPubSubEnqueuer.Enqueue: what the goroutine does after the publish failed
GCPAfterPublishFailure == "errThenNil"

\* AWSSNSEnqueuer.Enqueue: what the call does after the publish failed
SNSAfterPublishFailure == "err"

\* the completion calls an Enqueue call has ahead of it after outcome out:
\* "err" is completion(err) and return, "nil" is completion(nil), "errThenNil"
\* is completion(err) followed by completion(nil)
AfterPublish(k, out) ==
    CASE out = "marshalErr" -> "err"
      [] out = "fail" -> IF k = "gcp-pubsub" THEN GCPAfterPublishFailure
                         ELSE SNSAfterPublishFailure
      [] OTHER -> "nil"

\* a Stop() that does not wait
StopReturnsAtOnce(counter) == TRUE

\* Stop(): waitGroup.Wait() returns once the counter is zero
StopMayReturn(counter) == counter = 0

\* AWSSNSEnqueuer.Enqueue runs on the caller's control flow: the caller goes on
\* only when the call has returned
CallerMayProceed(p) == kind = "aws-sns" => goroutines[p] = {}

\* ---------------------------------------------------------- initial state

\* the worlds a behaviour can start in: the three listings, the task-markers/
\* objects of the own validation bucket and the jobs of the namespace
World(intake, peer, objects, jobs) ==
    [intake |-> intake, own |-> {"v1", "v2", "v3", "v4"}, peer |-> peer,
     objects |-> objects, jobs |-> jobs]

\* two current batches and one that is too old
PairWorlds ==
    {World({"b1", "b2", "b3"}, {}, objects, jobs) :
        objects \in SUBSET {TaskMarkerPrefix \o Marker(IntakeTask("b1"))},
        jobs \in SUBSET {TaskName(IntakeTask("b2"))}}

\* one current batch and validations of both parties
AggregationWorlds ==
    {World({"b1"}, {"v1", "v2"}, {}, jobs) :
        jobs \in SUBSET {aggregationTaskName(Agg1, 6 * Hour)}}

\* a batch whose ID is shorter than the fragment a job name takes from it
ShortIDWorlds == {World({"b1", "bs"}, {}, {}, {})}

\* the worlds in which a second instance is started while the first is running
OverlapWorlds == {World({"b1"}, {}, {}, {})}

\* batches at the two ends of the intake window and of the aggregation
\* window, and a peer validation that has no own validation
WindowWorlds ==
    {World({"be", "bf"}, {}, {}, {intakeJobNameForBatchPath(Path("bf"))}),
     World({}, {"v3", "v4", "v5"}, {}, {})}

\* a batch that was scheduled before and has its marker and its job, and a
\* new batch whose ID has the same first half
TwinWorlds ==
    {World({"b1", "bt"}, {},
           {TaskMarkerPrefix \o Marker(IntakeTask("b1"))},
           {intakeJobNameForBatchPath(Path("b1"))})}

\* a peer validation whose batch ID the own validations have under another
\* aggregation ID
OtherAggregationWorlds == {World({}, {"x1"}, {}, {})}

\* the worlds that are also run with --dry-run
DryRunWorlds ==
    {World({"b1", "b2", "b3"}, {}, {}, {TaskName(IntakeTask("b2"))}),
     World({"b1"}, {"v1", "v2"}, {}, {})}

Worlds ==
    PairWorlds \cup AggregationWorlds \cup ShortIDWorlds \cup OverlapWorlds
        \cup WindowWorlds \cup TwinWorlds \cup OtherAggregationWorlds

NoCall == [now |-> 0, period |-> 0, grace |-> 0, returned |-> FALSE,
           result |-> [begin |-> 0, end |-> 0],
           earlier |-> [called |-> FALSE, now |-> 0,
                        result |-> [begin |-> 0, end |-> 0]]]
NoInterval == [begin |-> 0, end |-> 0]
NoNames == [path |-> Path("b1"), returned |-> FALSE, panicked |-> FALSE,
            intake |-> <<>>, aggregation |-> <<>>]
NoGoroutines == [p \in Inst |-> {}]
ZeroWaitGroup == [p \in Inst |-> [intake |-> 0, aggregate |-> 0]]

InitProcess ==
    /\ pc = [p \in Inst |-> "idle"]
    /\ run = [p \in Inst |-> 0]
    /\ taskMarkers = [p \in Inst |-> {}]
    /\ intakeWindow = [p \in Inst |-> NoInterval]
    /\ currentIntakeBatches = [p \in Inst |-> {}]
    /\ inter = [p \in Inst |-> NoInterval]
    /\ batchesByID = [p \in Inst |-> <<>>]
    /\ readyBatches = [p \in Inst |-> <<>>]
    /\ aggregationMap = [p \in Inst |-> <<>>]
    /\ goroutines = NoGoroutines
    /\ waitGroup = ZeroWaitGroup
    /\ intakesStarted = [p \in Inst |-> 0]
    /\ aggregationsStarted = [p \in Inst |-> 0]
    /\ runs = 0
    /\ overlapped = FALSE
    /\ enqueued = {}
    /\ published = {}
    /\ completions = {}
    /\ markerWrites = {}
    /\ exits = {}

\* invocations follow one another in every world, and may also overlap in the
\* OverlapWorlds
Init ==
    /\ now = StartOfClock
    /\ ticks = 0
    /\ kind \in {"gcp-pubsub", "aws-sns"}
    /\ dryRun \in BOOLEAN
    /\ concurrent \in BOOLEAN
    /\ \E w \in Worlds :
        /\ concurrent => (w \in OverlapWorlds /\ ~dryRun)
        /\ dryRun => w \in DryRunWorlds
        /\ intakeFiles = w.intake
        /\ ownValidationFiles = w.own
        /\ peerValidationFiles = w.peer
        /\ bucketObjects = w.objects
        /\ existingJobs = w.jobs
    /\ intervalCall = NoCall
    /\ nameCall = NoNames
    /\ InitProcess

\* ------------------------------------------------------------ process exit

\* the process ends (log.Fatal, a panic, a signal, or main returning): its
\* goroutines end with it
Die(p, how) ==
    /\ pc' = [pc EXCEPT ![p] = how]
    /\ exits' = exits \cup
            {[run |-> run[p], how |-> how, phase |-> pc[p],
              enqueued |-> {x \in enqueued : x[1] = run[p]},
              pending |-> {g.task : g \in goroutines[p]},
              stops |-> CASE how = "done" -> 2
                          [] pc[p] = "stopAggregation" -> 1
                          [] OTHER -> 0]}
    /\ goroutines' = [goroutines EXCEPT ![p] = {}]
    /\ waitGroup' = [waitGroup EXCEPT ![p] = [intake |-> 0, aggregate |-> 0]]

\* -------------------------------------------------------------- main

\* main, from the listings to the call of enqueueIntakeTasks
Start(p) ==
    /\ pc[p] \notin Active
    /\ runs < MaxRuns
    /\ \A q \in Inst : q < p => pc[q] \in Active
    /\ IF concurrent THEN run[p] = 0 ELSE \A q \in Inst : pc[q] \notin Active
    /\ runs' = runs + 1
    /\ run' = [run EXCEPT ![p] = runs + 1]
    /\ overlapped' = (overlapped \/ \E q \in Inst : pc[q] \in Active)
    /\ taskMarkers' = [taskMarkers EXCEPT ![p] = TaskMarkerSet(bucketObjects)]
    /\ intakeWindow' = [intakeWindow EXCEPT
            ![p] = [begin |-> now - maxAge, end |-> now + IntakeLookAhead]]
    /\ currentIntakeBatches' = [currentIntakeBatches EXCEPT
            ![p] = withinInterval(intakeFiles, intakeWindow'[p])]
    /\ inter' = [inter EXCEPT ![p] = NoInterval]
    /\ batchesByID' = [batchesByID EXCEPT ![p] = <<>>]
    /\ \E order \in Orders(currentIntakeBatches'[p]) :
            readyBatches' = [readyBatches EXCEPT ![p] = order]
    /\ aggregationMap' = [aggregationMap EXCEPT ![p] = <<>>]
    /\ pc' = [pc EXCEPT ![p] = "intake"]
    /\ intakesStarted' = [intakesStarted EXCEPT ![p] = 0]
    /\ aggregationsStarted' = [aggregationsStarted EXCEPT ![p] = 0]
    /\ UNCHANGED <<clock, fixed, bucketObjects, goroutines, waitGroup, enqueued,
                   published, completions, markerWrites, exits>>

\* Enqueue(task, completion): waitGroup.Add(1) and the publish is started
Enqueue(p, task) ==
    /\ enqueued' = enqueued \cup {<<run[p], task>>}
    /\ waitGroup' = [waitGroup EXCEPT ![p][task.type] = @ + 1]
    /\ goroutines' = [goroutines EXCEPT
           ![p] = @ \cup {[task |-> task, st |-> "start", out |-> "none"]}]

\* a healing write whose error is logged and not returned
HealIgnoringError(p, task) ==
    \E res \in WriteResults :
        /\ markerWrites' = markerWrites \cup
               {[run |-> run[p], task |-> task, via |-> "heal", res |-> res,
                 late |-> FALSE]}
        /\ bucketObjects' = WriteTaskMarker(bucketObjects, Marker(task), res)
        /\ UNCHANGED <<pc, exits, goroutines, waitGroup>>

\* the task already has a job: write its marker, and return the error of the
\* write, which scheduleTasks hands to log.Fatal
Heal(p, task) ==
    \E res \in WriteResults :
        /\ markerWrites' = markerWrites \cup
               {[run |-> run[p], task |-> task, via |-> "heal", res |-> res,
                 late |-> FALSE]}
        /\ bucketObjects' = WriteTaskMarker(bucketObjects, Marker(task), res)
        /\ IF res = "err"
           THEN Die(p, "fatal")
           ELSE UNCHANGED <<pc, exits, goroutines, waitGroup>>

\* a loop that does not consult the marker set
MarkerIgnored(p, task) == FALSE

\* a loop that takes a task for marked once it was passed to Enqueue
MarkerOrEnqueued(p, task) ==
    Marker(task) \in taskMarkers[p] \/ \E x \in enqueued : x[2] = task

\* a loop that looks the marker up in the bucket as it is by now
MarkerInBucket(p, task) == (TaskMarkerPrefix \o Marker(task)) \in bucketObjects

\* _, ok := taskMarkers[task.Marker()]
MarkerExists(p, task) == Marker(task) \in taskMarkers[p]

\* a loop that does not consult the jobs map
JobNeverExists(task) == FALSE

\* a loop that looks the marker up in the jobs map, not the job name
JobExistsByMarker(task) == Marker(task) \in existingJobs

\* _, ok := existingJobs[taskName]
JobExists(task) == TaskName(task) \in existingJobs

\* one batch or group of an emission loop, after its task has been built:
\* the marker check, the job check with its healing write, the Enqueue call
Emit(p, task, panics) ==
    IF MarkerExists(p, task)
    THEN UNCHANGED <<pc, exits, goroutines, waitGroup, bucketObjects,
                     markerWrites, enqueued>>
    ELSE IF panics
    THEN Die(p, "panic") /\ UNCHANGED <<bucketObjects, markerWrites, enqueued>>
    ELSE IF JobExists(task)
    THEN Heal(p, task) /\ UNCHANGED enqueued
    ELSE Enqueue(p, task) /\ UNCHANGED <<pc, exits, bucketObjects, markerWrites>>

\* one iteration of the loop of enqueueIntakeTasks
IntakeStep(p) ==
    /\ pc[p] = "intake"
    /\ readyBatches[p] # <<>>
    /\ CallerMayProceed(p)
    /\ LET k == Head(readyBatches[p])
       IN  IF now - Path(k).Time > maxAge
           THEN UNCHANGED <<pc, exits, goroutines, waitGroup, bucketObjects,
                            markerWrites, enqueued>>
           ELSE Emit(p, IntakeTask(k), intakeJobNamePanics(Path(k)))
    /\ readyBatches' = [readyBatches EXCEPT
                           ![p] = IF pc'[p] = "intake" THEN Tail(@) ELSE <<>>]
    /\ UNCHANGED <<clock, fixed, run, snapshot, aggregationMap, counters,
                   runs, overlapped, published, completions>>

\* groupByAggregationID: the batches of each aggregation ID
groupByAggregationID(batches) ==
    [a \in {Path(k).AggregationID : k \in batches} |->
        {k \in batches : Path(k).AggregationID = a}]

\* an intersection that keeps every peer validation
IntersectionPeerOnly == peerValidationFiles

\* an intersection by aggregation ID
IntersectionByAggregationID ==
    LET ownValidationsSet == {Path(k).AggregationID : k \in ownValidationFiles}
    IN  {k \in peerValidationFiles : Path(k).AggregationID \in ownValidationsSet}

\* the intersection of the own and the peer validations by batch ID, as peer
\* descriptors
Intersection ==
    LET ownValidationsSet == {Path(k).ID : k \in ownValidationFiles}
    IN  {k \in peerValidationFiles : Path(k).ID \in ownValidationsSet}

\* the aggregation tasks enqueueAggregationTasks builds for an interval: one
\* for each group of the batches within it
AggregationTasks(interval) ==
    LET groups == groupByAggregationID(withinInterval(Intersection, interval))
    IN  {AggregationTask(a, interval, groups[a]) : a \in DOMAIN groups}

\* the lists a map of groups can hold: each group in some order of the listing
GroupLists(groups) ==
    {f \in [DOMAIN groups -> UNION {Orders(groups[a]) : a \in DOMAIN groups}] :
        \A a \in DOMAIN groups : f[a] \in Orders(groups[a])}

\* a loop that does not compare the aggregation IDs of a group
MixedGroupUnchecked(group) == FALSE

\* aggregationID != batchPath.AggregationID for some batch of the group
MixedGroup(group) ==
    \E i \in DOMAIN group :
        Path(group[i]).AggregationID # Path(group[1]).AggregationID

\* enqueueIntakeTasks returns nil; scheduleTasks intersects the validations,
\* computes the aggregation interval and groups the batches within it
IntakeDone(p) ==
    /\ pc[p] = "intake"
    /\ readyBatches[p] = <<>>
    /\ CallerMayProceed(p)
    /\ inter' = [inter EXCEPT
            ![p] = aggregationInterval(now, aggregationPeriod, gracePeriod)]
    /\ LET groups ==
               groupByAggregationID(withinInterval(Intersection, inter'[p]))
       IN  \E order \in Orders(DOMAIN groups) :
           \E lists \in GroupLists(groups) :
               aggregationMap' = [aggregationMap EXCEPT
                   ![p] = [i \in DOMAIN order |-> lists[order[i]]]]
    /\ batchesByID' = [batchesByID EXCEPT ![p] = aggregationMap'[p]]
    /\ pc' = [pc EXCEPT ![p] = "aggregation"]
    /\ UNCHANGED <<clock, fixed, bucketObjects, run, taskMarkers, intakeWindow,
                   currentIntakeBatches, readyBatches, goroutines, waitGroup, counters, runs, overlapped, enqueued,
                   published, completions, markerWrites, exits>>

\* one iteration of the loop of enqueueAggregationTasks: the task of the
\* group is built from its first batch, and a batch of another aggregation ID
\* makes the function return an error
AggregationStep(p) ==
    /\ pc[p] = "aggregation"
    /\ aggregationMap[p] # <<>>
    /\ CallerMayProceed(p)
    /\ LET group == Head(aggregationMap[p])
       IN  IF group = <<>>
           THEN Die(p, "panic")
                /\ UNCHANGED <<bucketObjects, markerWrites, enqueued>>
           ELSE IF MixedGroup(group)
           THEN Die(p, "fatal")
                /\ UNCHANGED <<bucketObjects, markerWrites, enqueued>>
           ELSE Emit(p, AggregationTask(Path(group[1]).AggregationID, inter[p],
                                        Range(group)), FALSE)
    /\ aggregationMap' = [aggregationMap EXCEPT
                             ![p] = IF pc'[p] = "aggregation" THEN Tail(@) ELSE <<>>]
    /\ UNCHANGED <<clock, fixed, run, snapshot, readyBatches, counters,
                   runs, overlapped, published, completions>>

\* enqueueAggregationTasks returns nil
AggregationDone(p) ==
    /\ pc[p] = "aggregation"
    /\ aggregationMap[p] = <<>>
    /\ CallerMayProceed(p)
    /\ pc' = [pc EXCEPT ![p] = "stopIntake"]
    /\ UNCHANGED <<clock, fixed, bucketObjects, run, snapshot, readyBatches,
                   aggregationMap, goroutines, waitGroup, counters, runs,
                   overlapped, enqueued, published, completions, markerWrites,
                   exits>>

\* config.intakeTaskEnqueuer.Stop() returns
StopIntake(p) ==
    /\ pc[p] = "stopIntake"
    /\ StopMayReturn(waitGroup[p].intake)
    /\ pc' = [pc EXCEPT ![p] = "stopAggregation"]
    /\ UNCHANGED <<clock, fixed, bucketObjects, run, snapshot, readyBatches,
                   aggregationMap, goroutines, waitGroup, counters, runs,
                   overlapped, enqueued, published, completions, markerWrites,
                   exits>>

\* config.aggregationTaskEnqueuer.Stop() returns, then scheduleTasks and main
StopAggregation(p) ==
    /\ pc[p] = "stopAggregation"
    /\ StopMayReturn(waitGroup[p].aggregate)
    /\ Die(p, "done")
    /\ UNCHANGED <<clock, fixed, bucketObjects, run, snapshot, readyBatches,
                   aggregationMap, counters, runs, overlapped, enqueued,
                   published, completions, markerWrites>>

\* ------------------------------------------------- publish and completion

\* the Enqueue call of g marshals the task and, unless this is a dry run,
\* publishes it and waits for the transport's answer
Publish(p, g) ==
    /\ g \in goroutines[p]
    /\ g.st = "start"
    /\ \E out \in PublishOutcomes :
        /\ published' = IF out \in {"ok", "fail"}
                        THEN published \cup
                                {[run |-> run[p], task |-> g.task, ack |-> (out = "ok")]}
                        ELSE published
        /\ goroutines' = [goroutines EXCEPT
               ![p] = (@ \ {g}) \cup
                          {[g EXCEPT !.st = AfterPublish(kind, out), !.out = out]}]
    /\ UNCHANGED <<clock, fixed, bucketObjects, pc, run, snapshot,
                   readyBatches, aggregationMap, waitGroup, counters, runs,
                   overlapped, enqueued, completions, markerWrites, exits>>

\* whether the completion of a task of this type counts the task as started
\* after WriteTaskMarker returned res
CountsAsStarted(type, res) == type = "aggregate" \/ res # "err"

\* the Enqueue call of g invokes the completion function; after its last
\* invocation the call returns and the deferred waitGroup.Done() runs
Complete(p, g) ==
    /\ g \in goroutines[p]
    /\ g.st # "start"
    /\ LET arg == IF g.st = "nil" THEN "nil" ELSE "err"
           n == Cardinality({c \in completions :
                                c.run = run[p] /\ c.task = g.task})
       IN  /\ completions' = completions \cup
                   {[run |-> run[p], task |-> g.task, arg |-> arg, n |-> n,
                     out |-> g.out]}
           /\ IF arg = "err"
              THEN UNCHANGED <<bucketObjects, markerWrites, counters>>
              ELSE \E res \in WriteResults :
                    /\ markerWrites' = markerWrites \cup
                           {[run |-> run[p], task |-> g.task,
                             via |-> "completion", res |-> res,
                             late |-> (pc[p] = "stopAggregation"
                                       /\ g.task.type = "intake")]}
                    /\ bucketObjects' =
                           WriteTaskMarker(bucketObjects, Marker(g.task), res)
                    /\ intakesStarted' = [intakesStarted EXCEPT ![p] =
                           IF g.task.type = "intake" /\ CountsAsStarted("intake", res)
                           THEN @ + 1 ELSE @]
                    /\ aggregationsStarted' = [aggregationsStarted EXCEPT ![p] =
                           IF g.task.type = "aggregate"
                              /\ CountsAsStarted("aggregate", res)
                           THEN @ + 1 ELSE @]
    /\ IF g.st = "errThenNil"
       THEN /\ goroutines' = [goroutines EXCEPT
                    ![p] = (@ \ {g}) \cup {[g EXCEPT !.st = "nil"]}]
            /\ UNCHANGED waitGroup
       ELSE /\ goroutines' = [goroutines EXCEPT ![p] = @ \ {g}]
            /\ waitGroup' = [waitGroup EXCEPT ![p][g.task.type] = @ - 1]
    /\ UNCHANGED <<clock, fixed, pc, run, snapshot, readyBatches,
                   aggregationMap, runs, overlapped, enqueued, published, exits>>

\* a signal kills the process
Kill(p) ==
    /\ pc[p] \in Active
    /\ Die(p, "killed")
    /\ readyBatches' = [readyBatches EXCEPT ![p] = <<>>]
    /\ aggregationMap' = [aggregationMap EXCEPT ![p] = <<>>]
    /\ UNCHANGED <<clock, fixed, bucketObjects, run, snapshot, counters,
                   runs, overlapped, enqueued, published, completions,
                   markerWrites>>

\* an invocation reads the clock when it starts (scheduleTasks, the intake
\* window), for every batch of the intake loop and when the aggregation
\* interval is computed
ReadsClockNext(p) ==
    \/ pc[p] = "intake"
    \/ /\ pc[p] \notin Active
       /\ runs < MaxRuns
       /\ IF concurrent THEN run[p] = 0 ELSE \A q \in Inst : pc[q] \notin Active

\* time passes: the clock has advanced when it is read next
Tick ==
    /\ ticks < MaxTicks
    /\ \E p \in Inst : ReadsClockNext(p)
    /\ ticks' = ticks + 1
    /\ now' = now + ClockStep
    /\ UNCHANGED <<fixed, bucketObjects, pc, run, snapshot, readyBatches,
                   aggregationMap, goroutines, waitGroup, counters, runs,
                   overlapped, enqueued, published, completions, markerWrites,
                   exits>>

Next ==
    \/ \E p \in Inst : Start(p)
    \/ \E p \in Inst : IntakeStep(p)
    \/ \E p \in Inst : IntakeDone(p)
    \/ \E p \in Inst : AggregationStep(p)
    \/ \E p \in Inst : AggregationDone(p)
    \/ \E p \in Inst : StopIntake(p)
    \/ \E p \in Inst : StopAggregation(p)
    \/ \E p \in Inst : \E g \in goroutines[p] : Publish(p, g)
    \/ \E p \in Inst : \E g \in goroutines[p] : Complete(p, g)
    \/ Tick

Spec == Init /\ [][Next]_vars

\* ------------------------------------------------- a process that is killed

\* one current intake batch without marker and job and no validations;
\* the invocations follow one another while the clock stands still, so that
\* each of them sees the same listings, jobs and time window
InitKill ==
    /\ Init
    /\ ~dryRun
    /\ ~concurrent
    /\ intakeFiles = {"b1"}
    /\ peerValidationFiles = {}

NextKill ==
    \/ \E p \in Inst : Start(p)
    \/ \E p \in Inst : IntakeStep(p)
    \/ \E p \in Inst : IntakeDone(p)
    \/ \E p \in Inst : AggregationDone(p)
    \/ \E p \in Inst : StopIntake(p)
    \/ \E p \in Inst : StopAggregation(p)
    \/ \E p \in Inst : \E g \in goroutines[p] : Publish(p, g)
    \/ \E p \in Inst : \E g \in goroutines[p] : Complete(p, g)
    \/ \E p \in Inst : Kill(p)

SpecKill == InitKill /\ [][NextKill]_vars

\* ------------------------------- validations that arrive between invocations

\* the validations of both parties that are not in the peer listing at first
LateValidations == {"v1"}

\* no intake batches, and peer validations of which one is within the
\* aggregation window and validated by this instance too
InitArrivals ==
    /\ Init
    /\ ~dryRun
    /\ ~concurrent
    /\ intakeFiles = {}
    /\ peerValidationFiles = {"v3", "v4", "v5"}

\* between two invocations a further peer validation becomes ready: the next
\* invocation finds it in its listing
Arrive ==
    /\ runs > 0
    /\ \A p \in Inst : pc[p] \notin Active
    /\ \E k \in LateValidations \ peerValidationFiles :
          peerValidationFiles' = peerValidationFiles \cup {k}
    /\ UNCHANGED <<clock, kind, dryRun, concurrent, intakeFiles,
                   ownValidationFiles, existingJobs, intervalCall, nameCall,
                   bucketObjects, pc, run, snapshot, readyBatches,
                   aggregationMap, goroutines, waitGroup, counters, runs,
                   overlapped, enqueued, published, completions, markerWrites,
                   exits>>

NextArrivals ==
    \/ \E p \in Inst : Start(p)
    \/ \E p \in Inst : IntakeDone(p)
    \/ \E p \in Inst : AggregationStep(p)
    \/ \E p \in Inst : AggregationDone(p)
    \/ \E p \in Inst : StopIntake(p)
    \/ \E p \in Inst : StopAggregation(p)
    \/ \E p \in Inst : \E g \in goroutines[p] : Publish(p, g)
    \/ \E p \in Inst : \E g \in goroutines[p] : Complete(p, g)
    \/ Tick
    \/ Arrive

SpecArrivals == InitArrivals /\ [][NextArrivals]_vars

\* ------------------------------------------------ aggregationInterval alone

MaxNow == 12          \* instants 0..MaxNow
MaxPeriod == 4        \* aggregation periods -MaxPeriod..MaxPeriod
MaxGrace == 3         \* grace periods -MaxGrace..MaxGrace

\* time.ParseDuration accepts negative and zero durations, and main checks
\* nothing but its error
AcceptedDurations(max) == (0 - max)..max

InitInterval ==
    /\ now = 0
    /\ ticks = 0
    /\ kind = "gcp-pubsub"
    /\ dryRun = FALSE
    /\ concurrent = FALSE
    /\ intakeFiles = {}
    /\ ownValidationFiles = {}
    /\ peerValidationFiles = {}
    /\ bucketObjects = {}
    /\ existingJobs = {}
    /\ \E n \in 0..MaxNow, period \in AcceptedDurations(MaxPeriod),
          grace \in AcceptedDurations(MaxGrace) :
            intervalCall = [NoCall EXCEPT !.now = n, !.period = period,
                                          !.grace = grace]
    /\ nameCall = NoNames
    /\ InitProcess

CallAggregationInterval ==
    /\ ~intervalCall.returned
    /\ intervalCall' = [intervalCall EXCEPT
            !.returned = TRUE,
            !.result = aggregationInterval(intervalCall.now, intervalCall.period,
                                           intervalCall.grace)]
    /\ UNCHANGED <<clock, kind, dryRun, concurrent, intakeFiles,
                   ownValidationFiles, peerValidationFiles, existingJobs,
                   nameCall, bucketObjects, pc, run, snapshot, readyBatches, aggregationMap,
                   goroutines, waitGroup, counters, runs, overlapped, enqueued,
                   published, completions, markerWrites, exits>>

NextInterval == CallAggregationInterval

SpecInterval == InitInterval /\ [][NextInterval]_vars

\* -------------------------------- aggregationInterval at two instants

\* a later invocation with the same flags: the clock has moved on (or not),
\* the interval of the invocation before is remembered
LaterInvocation ==
    /\ intervalCall.returned
    /\ ~intervalCall.earlier.called
    /\ \E n \in intervalCall.now..MaxNow :
          intervalCall' = [intervalCall EXCEPT
              !.earlier = [called |-> TRUE, now |-> intervalCall.now,
                           result |-> intervalCall.result],
              !.now = n,
              !.returned = FALSE]
    /\ UNCHANGED <<clock, kind, dryRun, concurrent, intakeFiles,
                   ownValidationFiles, peerValidationFiles, existingJobs,
                   nameCall, bucketObjects, pc, run, snapshot, readyBatches, aggregationMap,
                   goroutines, waitGroup, counters, runs, overlapped, enqueued,
                   published, completions, markerWrites, exits>>

NextWindows ==
    \/ CallAggregationInterval
    \/ LaterInvocation

SpecWindows == InitInterval /\ [][NextWindows]_vars

\* ------------------------------------------- enqueueAggregationTasks alone

MaxGroupLength == 2   \* batches in one group of the map

\* the batches the groups are made of: two of one aggregation ID and one of
\* another
GroupKeys == {"v1", "v3", "w1"}

\* the lists of batches a group can be
GivenGroups == UNION {[1..n -> GroupKeys] : n \in 1..MaxGroupLength}

\* the maps enqueueAggregationTasks is called with, in the order the loop
\* visits them: one group, or two groups that begin with batches of different
\* aggregation IDs
GivenMaps ==
    {<<g>> : g \in GivenGroups} \cup
    {m \in {<<g, h>> : g \in GivenGroups, h \in GivenGroups} :
        Path(m[1][1]).AggregationID # Path(m[2][1]).AggregationID}

\* scheduleTasks has reached the call of enqueueAggregationTasks
InitGroups ==
    /\ now = StartOfClock
    /\ ticks = 0
    /\ kind \in {"gcp-pubsub", "aws-sns"}
    /\ dryRun = FALSE
    /\ concurrent = FALSE
    /\ intakeFiles = {}
    /\ ownValidationFiles = GroupKeys
    /\ peerValidationFiles = GroupKeys
    /\ bucketObjects = {}
    /\ existingJobs = {}
    /\ intervalCall = NoCall
    /\ nameCall = NoNames
    /\ pc = [p \in Inst |-> IF p = 1 THEN "aggregation" ELSE "idle"]
    /\ run = [p \in Inst |-> IF p = 1 THEN 1 ELSE 0]
    /\ runs = 1
    /\ taskMarkers = [p \in Inst |-> {}]
    /\ intakeWindow = [p \in Inst |-> NoInterval]
    /\ currentIntakeBatches = [p \in Inst |-> {}]
    /\ inter = [p \in Inst |->
            IF p = 1
            THEN aggregationInterval(StartOfClock, aggregationPeriod, gracePeriod)
            ELSE NoInterval]
    /\ \E given \in GivenMaps :
        /\ batchesByID = [p \in Inst |-> IF p = 1 THEN given ELSE <<>>]
        /\ aggregationMap = [p \in Inst |-> IF p = 1 THEN given ELSE <<>>]
    /\ readyBatches = [p \in Inst |-> <<>>]
    /\ goroutines = NoGoroutines
    /\ waitGroup = ZeroWaitGroup
    /\ intakesStarted = [p \in Inst |-> 0]
    /\ aggregationsStarted = [p \in Inst |-> 0]
    /\ overlapped = FALSE
    /\ enqueued = {}
    /\ published = {}
    /\ completions = {}
    /\ markerWrites = {}
    /\ exits = {}

NextGroups ==
    \/ \E p \in Inst : AggregationStep(p)
    \/ \E p \in Inst : AggregationDone(p)
    \/ \E p \in Inst : StopIntake(p)
    \/ \E p \in Inst : StopAggregation(p)
    \/ \E p \in Inst : \E g \in goroutines[p] : Publish(p, g)
    \/ \E p \in Inst : \E g \in goroutines[p] : Complete(p, g)

SpecGroups == InitGroups /\ [][NextGroups]_vars

\* ------------------------------------------------------ the job names alone

\* Kubernetes job names are limited to 63 characters
MaxJobNameLength == 63

\* aggregation IDs: a short one, the empty one, and one that is longer than
\* both fragments and has characters no job name may have
NamedAggregationIDs ==
    {Agg1, <<>>, Agg1 \o <<".", "E", "N", "_", "/">> \o UUID("1"),
     <<"K", "r", "-">> \o Agg2}

\* batch IDs: UUIDs in lower case and one with a capital digit, and an ID
\* that is no UUID
NamedBatchIDs == {UUID("1"), UUID("a"), UUID("F"), ShortID}

NamedTimes == {0, 10 * Hour, StartOfClock, 30 * Day + 23 * Hour + 59 * Minute}

InitNames ==
    /\ now = 0
    /\ ticks = 0
    /\ kind = "gcp-pubsub"
    /\ dryRun = FALSE
    /\ concurrent = FALSE
    /\ intakeFiles = {}
    /\ ownValidationFiles = {}
    /\ peerValidationFiles = {}
    /\ bucketObjects = {}
    /\ existingJobs = {}
    /\ intervalCall = NoCall
    /\ \E a \in NamedAggregationIDs, id \in NamedBatchIDs, t \in NamedTimes :
            nameCall = [NoNames EXCEPT
                           !.path = [AggregationID |-> a, Time |-> t, ID |-> id]]
    /\ InitProcess

\* the job names of the two emission loops are built for the batch
BuildJobNames ==
    /\ ~nameCall.returned
    /\ nameCall' = [nameCall EXCEPT
            !.returned = TRUE,
            !.panicked = intakeJobNamePanics(nameCall.path),
            !.intake = IF intakeJobNamePanics(nameCall.path)
                       THEN <<>>
                       ELSE intakeJobNameForBatchPath(nameCall.path),
            !.aggregation = aggregationTaskName(nameCall.path.AggregationID,
                                                nameCall.path.Time)]
    /\ UNCHANGED <<clock, kind, dryRun, concurrent, intakeFiles,
                   ownValidationFiles, peerValidationFiles, existingJobs,
                   intervalCall, bucketObjects, pc, run, snapshot, readyBatches,
                   aggregationMap, goroutines, waitGroup, counters, runs,
                   overlapped, enqueued, published, completions, markerWrites,
                   exits>>

NextNames == BuildJobNames

SpecNames == InitNames /\ [][NextNames]_vars

\* ------------------------------------------------------------ properties

\* the logical unit of work of a task: a ready batch, or an aggregation ID
\* and a window
Unit(task) ==
    IF task.type = "intake"
    THEN <<"intake", task.batch>>
    ELSE <<"aggregate", task.AggregationID, task.AggregationStart,
           task.AggregationEnd>>

\* how often a unit has been published to the task queue
PublishCount(u) ==
    Cardinality({x \in published : x.ack /\ Unit(x.task) = u})

RunEnded(r) == \E e \in exits : e.run = r
Ended(r, how) == \E e \in exits : e.run = r /\ e.how = how
EnqueuedBy(r) == {x[2] : x \in {y \in enqueued : y[1] = r}}
Acked(r, task) == \E x \in published : x.run = r /\ x.task = task /\ x.ack
PublishFailed(r, task) == \E x \in published : x.run = r /\ x.task = task /\ ~x.ack
MarkerWritten(r, task) ==
    \E w \in markerWrites : w.run = r /\ w.task = task /\ w.res = "ok"
CompletionsOf(r, task) == {c \in completions : c.run = r /\ c.task = task}

\* the Enqueue call of run r for task has done all it does
Returned(r, task) ==
    /\ \A p \in Inst : run[p] = r => \A g \in goroutines[p] : g.task # task
    /\ \A e \in exits : e.run = r => task \notin e.pending

\* C1, as stated: every unit of work that is published to the task queue is
\* published exactly once, whether or not invocations overlap.
C1_PublishedExactlyOnce ==
    \A x \in published : x.ack => PublishCount(Unit(x.task)) = 1

\* every acknowledged publish of an invocation that has ended was followed by
\* a successful write of the task's marker
NoMarkerLost ==
    \A x \in published : (x.ack /\ RunEnded(x.run)) => MarkerWritten(x.run, x.task)

\* C1, amended: when invocations do not overlap and every acknowledged publish
\* is followed by a successful write of its marker before its invocation ends,
\* no unit of work is published more than once.
C1_AtMostOnceInSequence ==
    (~overlapped /\ NoMarkerLost) =>
        \A x \in published : x.ack => PublishCount(Unit(x.task)) <= 1

\* C1, witness: a first invocation published a task and wrote its marker, and
\* a second invocation has run to its end on the same clock after it.
C1_Witness ==
    /\ ~overlapped /\ NoMarkerLost /\ ticks = 0
    /\ Ended(1, "done") /\ Ended(2, "done")
    /\ \E x \in published : x.ack /\ x.run = 1

\* C2, as stated: the second of two back-to-back runs on the same listings,
\* jobs and clock calls Enqueue zero times.
C2_SecondRunEnqueuesNothing ==
    (~overlapped /\ ticks = 0 /\ Ended(1, "done")) => EnqueuedBy(2) = {}

\* C2, amended: the second run calls Enqueue zero times when the first run
\* returned normally and wrote the marker of every task it passed to Enqueue.
C2_SecondRunEnqueuesNothingWhenMarked ==
    (/\ ~overlapped /\ ticks = 0 /\ Ended(1, "done")
     /\ \A t \in EnqueuedBy(1) : MarkerWritten(1, t))
        => EnqueuedBy(2) = {}

\* C2, witness: the first run enqueued tasks and wrote their markers, and the
\* second run has returned.
C2_Witness ==
    /\ ~overlapped /\ ticks = 0 /\ Ended(1, "done") /\ Ended(2, "done")
    /\ EnqueuedBy(1) # {}
    /\ \A t \in EnqueuedBy(1) : MarkerWritten(1, t)

\* C3: a marker is written from a completion only for a task whose publish was
\* acknowledged, and otherwise only as a healing write for a task whose job
\* name is in the existing-jobs map.
C3_MarkerOnlyAfterAck ==
    \A w \in markerWrites :
        w.res = "ok" =>
            /\ w.via = "completion" =>
                   (Acked(w.run, w.task) /\ ~PublishFailed(w.run, w.task))
            /\ w.via = "heal" => TaskName(w.task) \in existingJobs

\* C4: a task whose publish failed in a first invocation that returned is
\* passed to Enqueue again by a second invocation that runs to its end on the
\* same listings, jobs and clock.
C4_FailedPublishIsRetried ==
    \A x \in published :
        (/\ ~x.ack /\ x.run = 1
         /\ ~overlapped /\ ticks = 0 /\ Ended(1, "done") /\ Ended(2, "done"))
            => x.task \in EnqueuedBy(2)

\* C5: the completion function of an Enqueue call is invoked exactly once,
\* with nil when the task was published (or the run is a dry run) and with an
\* error when marshalling or publishing failed.
C5_CompletionExactlyOnce ==
    /\ \A c \in completions :
        /\ c.n = 0
        /\ c.arg = "nil" => ~PublishFailed(c.run, c.task)
        /\ c.arg = "err" => ~Acked(c.run, c.task)
    /\ \A x \in enqueued :
        Returned(x[1], x[2]) => CompletionsOf(x[1], x[2]) # {}

\* C6: Stop() returns only after the completion of every Enqueue call made on
\* the enqueuer has been invoked and has returned; no marker is written from a
\* completion after Stop() has returned.
C6_StopIsBarrier ==
    /\ \A p \in Inst :
        pc[p] = "stopAggregation" =>
            /\ \A g \in goroutines[p] : g.task.type # "intake"
            /\ \A t \in EnqueuedBy(run[p]) :
                   t.type = "intake" => CompletionsOf(run[p], t) # {}
    /\ \A e \in exits :
        e.how = "done" =>
            /\ e.pending = {}
            /\ \A t \in EnqueuedBy(e.run) : CompletionsOf(e.run, t) # {}
    /\ \A w \in markerWrites : ~w.late

\* C6, witness: Stop() has returned on the pub-sub intake enqueuer after
\* intake tasks were enqueued on it.
C6_Witness ==
    \E p \in Inst :
        /\ pc[p] = "stopAggregation"
        /\ kind = "gcp-pubsub"
        /\ \E t \in EnqueuedBy(run[p]) : t.type = "intake"

\* C7: an invocation that made an Enqueue call and ends by returning or by
\* log.Fatal has had Stop() return on both enqueuers, and no completion is
\* pending when the process exits.
C7_StoppedBeforeExit ==
    \A e \in exits :
        (e.how \in {"done", "fatal"} /\ EnqueuedBy(e.run) # {})
            => (e.stops = 2 /\ e.pending = {})

\* C8: the marker of every task passed to Enqueue is absent from the marker
\* set built from the pre-run listing, and the task's job name is no key of
\* the pre-run existing-jobs map.
C8_EnqueuedWasAbsent ==
    \A p \in Inst : \A t \in EnqueuedBy(run[p]) :
        /\ Marker(t) \notin taskMarkers[p]
        /\ TaskName(t) \notin existingJobs

\* C8, witness: a run whose marker set is not empty has passed a task to
\* Enqueue.
C8_Witness ==
    \E p \in Inst : EnqueuedBy(run[p]) # {} /\ taskMarkers[p] # {}

\* the tasks the emission loops of the run of p are to build
Candidates(p) ==
    {IntakeTask(k) : k \in currentIntakeBatches[p]} \cup AggregationTasks(inter[p])

Panics(task) == task.type = "intake" /\ intakeJobNamePanics(Path(task.batch))

\* the job of the task exists and its marker is missing before the run
JobWithoutMarker(p, task) ==
    /\ ~Panics(task)
    /\ TaskName(task) \in existingJobs
    /\ Marker(task) \notin taskMarkers[p]

Healed(p, task) ==
    MarkerWritten(run[p], task) /\ task \notin EnqueuedBy(run[p])

\* C9, as stated: a run writes the marker of every task whose job exists and
\* whose marker is missing, and does not call Enqueue for it.
C9_HealsEveryJob ==
    \A p \in Inst :
        pc[p] \in {"done", "fatal", "panic"} =>
            \A t \in Candidates(p) : JobWithoutMarker(p, t) => Healed(p, t)

\* an intake batch the loop does not skip as too old
NotTooOld(task) == task.type = "intake" => now - Path(task.batch).Time <= maxAge

\* C9, amended: a run that is no dry run and returns normally has written the
\* marker of every task its loops built whose job exists and whose marker was
\* missing, and has not called Enqueue for it.
C9_HealsWhenRunReturns ==
    \A p \in Inst :
        (pc[p] = "done" /\ ~dryRun) =>
            \A t \in Candidates(p) :
                (JobWithoutMarker(p, t) /\ NotTooOld(t)) => Healed(p, t)

\* C9, witness: a run has returned after it found a job without a marker.
C9_Witness ==
    \E p \in Inst :
        /\ pc[p] = "done" /\ ~dryRun
        /\ \E t \in Candidates(p) : JobWithoutMarker(p, t) /\ NotTooOld(t)

\* e is a multiple of period
IsMultiple(e, period) ==
    \E k \in (0 - (MaxNow + MaxGrace + 1))..(MaxNow + MaxGrace + 1) : e = k * period

\* C10: for every instant, aggregation period and grace period the
\* configuration accepts, the interval ends no later than Now - grace, its end
\* is a multiple of the period and it begins one period before its end.
C10_IntervalAligned ==
    intervalCall.returned =>
        /\ intervalCall.result.end <= intervalCall.now - intervalCall.grace
        /\ IsMultiple(intervalCall.result.end, intervalCall.period)
        /\ intervalCall.result.begin = intervalCall.result.end - intervalCall.period

\* C11: every batch of an aggregation task passed to Enqueue has a time in
\* the half-open window [AggregationStart, AggregationEnd) of that task.
C11_BatchesWithinWindow ==
    \A x \in enqueued :
        x[2].type = "aggregate" =>
            \A k \in x[2].Batches :
                /\ x[2].AggregationStart <= Path(k).Time
                /\ Path(k).Time < x[2].AggregationEnd

\* C11, witness: an aggregation task was enqueued with a batch at exactly the
\* begin of its window while a validated batch lies at exactly its end.
C11_Witness ==
    \E x \in enqueued :
        /\ x[2].type = "aggregate"
        /\ \E k \in x[2].Batches : Path(k).Time = x[2].AggregationStart
        /\ \E k \in Intersection : Path(k).Time = x[2].AggregationEnd

\* the loop of enqueueAggregationTasks of the run of p has run to its end
AggregationLoopDone(p) == pc[p] \in {"stopIntake", "stopAggregation", "done"}

\* the batch IDs in the aggregation tasks run r passed to Enqueue
AggregatedIDs(r) ==
    {Path(k).ID : k \in UNION {t.Batches : t \in {u \in EnqueuedBy(r) :
                                                     u.type = "aggregate"}}}

\* the batches with a ready own validation and a ready peer validation within
\* the aggregation window of the run of p
ReadyBoth(p) ==
    {k \in peerValidationFiles :
        /\ \E j \in ownValidationFiles : Path(j).ID = Path(k).ID
        /\ inter[p].begin <= Path(k).Time
        /\ Path(k).Time < inter[p].end}

\* the aggregation task of aggregation ID a for the window of the run of p
\* has no marker in the marker set and no job in the jobs map
Unscheduled(p, a) ==
    /\ AggregationMarker([AggregationID |-> a,
                          AggregationStart |-> inter[p].begin,
                          AggregationEnd |-> inter[p].end]) \notin taskMarkers[p]
    /\ aggregationTaskName(a, inter[p].begin) \notin existingJobs

\* C12, as stated: the batch IDs in the aggregation tasks a run enqueued are
\* the batch IDs validated by both parties within the window.
C12_AggregatesIntersection ==
    \A p \in Inst :
        AggregationLoopDone(p) =>
            AggregatedIDs(run[p]) = {Path(k).ID : k \in ReadyBoth(p)}

\* C12, amended: the batch IDs in the aggregation tasks a run enqueued are
\* always among the batch IDs validated by both parties within the window,
\* and once the loop has run to its end they are those whose aggregation
\* task had neither a marker nor a job before the run.
C12_AggregatesUnscheduledIntersection ==
    \A p \in Inst :
        /\ AggregatedIDs(run[p]) \subseteq {Path(k).ID : k \in ReadyBoth(p)}
        /\ AggregationLoopDone(p) =>
               AggregatedIDs(run[p]) =
                   {Path(k).ID : k \in {j \in ReadyBoth(p) :
                                           Unscheduled(p, Path(j).AggregationID)}}

\* C12, witness: the loop has run to its end and enqueued a task, and a peer
\* validation within the window has no own validation.
C12_Witness ==
    \E p \in Inst :
        /\ AggregationLoopDone(p)
        /\ AggregatedIDs(run[p]) # {}
        /\ \E k \in peerValidationFiles :
               /\ k \notin ReadyBoth(p)
               /\ inter[p].begin <= Path(k).Time /\ Path(k).Time < inter[p].end

\* the batches of a group do not all have one aggregation ID
HasOtherID(group) ==
    \E i, j \in DOMAIN group :
        Path(group[i]).AggregationID # Path(group[j]).AggregationID

\* the groups of the map the loop of the run of p has visited
VisitedGroups(p) ==
    {batchesByID[p][i] :
        i \in 1..(Len(batchesByID[p]) - Len(aggregationMap[p]))}

\* C13: every aggregation task passed to Enqueue holds only batches whose
\* aggregation ID is the task's; a group with a batch of another aggregation
\* ID makes enqueueAggregationTasks return an error, and no task is enqueued
\* for it.
C13_SingleAggregationID ==
    /\ \A x \in enqueued :
        x[2].type = "aggregate" =>
            \A k \in x[2].Batches : Path(k).AggregationID = x[2].AggregationID
    /\ \A p \in Inst : \A i \in DOMAIN batchesByID[p] :
        HasOtherID(batchesByID[p][i]) =>
            /\ ~AggregationLoopDone(p)
            /\ pc[p] = "aggregation" => batchesByID[p][i] \notin VisitedGroups(p)
            /\ \A t \in EnqueuedBy(run[p]) :
                   t.type = "aggregate" => t.Batches # Range(batchesByID[p][i])

\* C13, witness: the loop enqueued the task of a group of one aggregation ID
\* and then returned an error for a group with two.
C13_Witness ==
    \E p \in Inst :
        /\ pc[p] = "fatal"
        /\ \E t \in EnqueuedBy(run[p]) : Cardinality(t.Batches) > 1
        /\ \E i \in DOMAIN batchesByID[p] : HasOtherID(batchesByID[p][i])

\* ^[a-z0-9-]{1,63}$
ValidJobName(name) ==
    /\ Len(name) >= 1
    /\ Len(name) <= MaxJobNameLength
    /\ Range(name) \subseteq (Range(Lower) \cup Range(Digits) \cup {"-"})

\* C14: for every aggregation ID, batch ID and batch time the intake job name
\* and the aggregation job name that are built have between 1 and 63
\* characters, all of them among a-z, 0-9 and '-'.
C14_JobNamesAreValid ==
    nameCall.returned =>
        /\ ~nameCall.panicked => ValidJobName(nameCall.intake)
        /\ ValidJobName(nameCall.aggregation)

\* task-markers/intake-<aggregation_id>-<YYYY-MM-DD-HH-MM>-<batch_id>
ExpectedIntakeMarker(k) ==
    TaskMarkerPrefix \o <<"i", "n", "t", "a", "k", "e", "-">>
        \o Path(k).AggregationID \o <<"-">>
        \o stringWithFormat(Path(k).Time, <<"-">>) \o <<"-">> \o Path(k).ID

\* the batch is within the intake window of the run of p and has neither a
\* marker nor a job before the run
Schedulable(p, k) ==
    /\ k \in currentIntakeBatches[p]
    /\ TrimPrefix(ExpectedIntakeMarker(k), TaskMarkerPrefix) \notin taskMarkers[p]
    /\ Panics(IntakeTask(k)) \/ TaskName(IntakeTask(k)) \notin existingJobs

\* C15: while the clock stands still, a run does not crash on a ready intake
\* batch within the window that has neither marker nor job, whatever its batch
\* ID; when the run has returned it has passed the batch's intake task to
\* Enqueue, and the marker written after the acknowledged publish is
\* task-markers/intake-<aggregation_id>-<YYYY-MM-DD-HH-MM>-<batch_id>.
C15_IntakeBatchIsScheduled ==
    \A p \in Inst : \A k \in intakeFiles :
        (ticks = 0 /\ Schedulable(p, k)) =>
            /\ pc[p] # "panic"
            /\ pc[p] = "done" => IntakeTask(k) \in EnqueuedBy(run[p])
            /\ \A w \in markerWrites :
                   (w.run = run[p] /\ w.task = IntakeTask(k) /\ w.res = "ok")
                       => ExpectedIntakeMarker(k) \in bucketObjects

\* the batch is outside the intake window of the run of p
OutsideIntakeWindow(p, k) ==
    ~(intakeWindow[p].begin <= Path(k).Time /\ Path(k).Time < intakeWindow[p].end)

\* C16: for a ready batch outside the half-open intake window a run calls
\* Enqueue zero times and writes no marker, whatever the marker set and the
\* jobs map hold.
C16_OutsideWindowUntouched ==
    \A p \in Inst : \A k \in intakeFiles :
        OutsideIntakeWindow(p, k) =>
            /\ IntakeTask(k) \notin EnqueuedBy(run[p])
            /\ \A w \in markerWrites :
                   ~(w.run = run[p] /\ w.task = IntakeTask(k))

\* C16, witness: a run has returned; one of its batches lies at exactly the
\* end of its intake window and has a job, another one was enqueued.
C16_Witness ==
    \E p \in Inst :
        /\ pc[p] = "done"
        /\ EnqueuedBy(run[p]) # {}
        /\ \E k \in intakeFiles :
               /\ Path(k).Time = intakeWindow[p].end
               /\ TaskName(IntakeTask(k)) \in existingJobs

\* C17: when a process is killed after Enqueue was called for a task and
\* before the task's completion has run, the run has written no marker for
\* the task, the marker is in the bucket only if a later run wrote it, and
\* the next invocation, run to its end on the same listings, jobs and clock,
\* passes the task to Enqueue again.
C17_KilledTaskIsRescheduled ==
    \A e \in exits :
        e.how = "killed" =>
            \A t \in e.pending :
                CompletionsOf(e.run, t) = {} =>
                    /\ ~MarkerWritten(e.run, t)
                    /\ (\A w \in markerWrites : w.task = t => w.res # "ok")
                           => (TaskMarkerPrefix \o Marker(t)) \notin bucketObjects
                    /\ (ticks = 0 /\ Ended(e.run + 1, "done"))
                           => t \in EnqueuedBy(e.run + 1)

\* C17, witness: a process was killed with a task whose completion had not
\* run, and the next invocation has run to its end.
C17_Witness ==
    \E e \in exits :
        /\ e.how = "killed"
        /\ \E t \in e.pending : CompletionsOf(e.run, t) = {}
        /\ ticks = 0
        /\ Ended(e.run + 1, "done")

\* C18: when a healing marker write returns an error the invocation ends
\* fatally at once: no Enqueue call of the run follows, and the aggregation
\* phase is not started when the write was made in the intake phase.
C18_HealingErrorIsFatal ==
    \A w \in markerWrites :
        (w.via = "heal" /\ w.res = "err") =>
            \E e \in exits :
                /\ e.run = w.run
                /\ e.how = "fatal"
                /\ e.enqueued = {x \in enqueued : x[1] = w.run}
                /\ w.task.type = "intake" =>
                       /\ e.phase = "intake"
                       /\ \A t \in EnqueuedBy(w.run) : t.type = "intake"
                       /\ \A p \in Inst : run[p] = w.run => inter[p] = NoInterval

\* C18, witness: a healing write failed after the loop had enqueued a task.
C18_Witness ==
    \E w \in markerWrites :
        /\ w.via = "heal"
        /\ w.res = "err"
        /\ EnqueuedBy(w.run) # {}

\* the marker writes the completions of the run of p made for tasks of a type
\* that did not return an error
GoodWrites(p, type) ==
    {w \in markerWrites :
        /\ w.run = run[p]
        /\ w.task.type = type
        /\ w.via = "completion"
        /\ w.res # "err"}

\* C19: the started counter of either loop counts no completion whose marker
\* write returned an error: the aggregation completion counts as the intake
\* completion does.
C19_CountersCountWrittenMarkers ==
    \A p \in Inst :
        /\ intakesStarted[p] <= Cardinality(GoodWrites(p, "intake"))
        /\ aggregationsStarted[p] <= Cardinality(GoodWrites(p, "aggregate"))

\* Stop() has waited: a run that returned has had the completion of every
\* task it enqueued invoked
StopWaited ==
    \A e \in exits :
        e.how = "done" => \A t \in EnqueuedBy(e.run) : CompletionsOf(e.run, t) # {}

\* C20, as stated: in a dry run nothing is published and every completion is
\* invoked exactly once, with nil; Stop() waits for the completions.
C20_DryRunCompletesWithNil ==
    dryRun =>
        /\ published = {}
        /\ \A c \in completions : c.n = 0 /\ c.arg = "nil"
        /\ StopWaited

\* C20, amended: in a dry run nothing is published and every completion is
\* invoked exactly once: with nil when the task was marshalled, with the
\* error when marshalling failed; Stop() waits for the completions.
C20_DryRunCompletesOnce ==
    dryRun =>
        /\ published = {}
        /\ \A c \in completions :
               /\ c.n = 0
               /\ c.arg = (IF c.out = "marshalErr" THEN "err" ELSE "nil")
        /\ StopWaited

\* C20, witness: a dry run has returned after the completions of an intake
\* and of an aggregation task were invoked with nil.
C20_Witness ==
    /\ dryRun
    /\ \E e \in exits :
           /\ e.how = "done"
           /\ \E c \in CompletionsOf(e.run, IntakeTask("b1")) : c.out = "dry"
           /\ \E t \in EnqueuedBy(e.run) :
                  /\ t.type = "aggregate"
                  /\ \E c \in CompletionsOf(e.run, t) : c.out = "dry"

\* the windows computed at every instant from the earlier invocation to the
\* later one
WindowSequence ==
    {aggregationInterval(n, intervalCall.period, intervalCall.grace) :
        n \in intervalCall.earlier.now..intervalCall.now}

\* both invocations have computed their window, with a positive period
TwoWindows ==
    /\ intervalCall.returned
    /\ intervalCall.earlier.called
    /\ intervalCall.period > 0

\* C21: for a fixed aggregation period > 0 and grace period, the windows
\* computed at two instants Now1 <= Now2 are the same interval or disjoint
\* with begin2 >= end1; the window computed at Now + period is the window
\* computed at Now shifted by one period; and every instant from the begin
\* of the first window up to the end of the second lies in exactly one
\* window of the sequence.
C21_WindowsTile ==
    TwoWindows =>
        LET w1 == intervalCall.earlier.result
            w2 == intervalCall.result
        IN  /\ w1 = w2 \/ w2.begin >= w1.end
            /\ intervalCall.now = intervalCall.earlier.now + intervalCall.period
                   => w2 = [begin |-> w1.begin + intervalCall.period,
                            end |-> w1.end + intervalCall.period]
            /\ \A t \in w1.begin..(w2.end - 1) :
                   Cardinality({w \in WindowSequence : inInterval(t, w)}) = 1

\* C21, witness: the second window was computed exactly one period after
\* the first, with a period of more than one unit and a grace period that is
\* no multiple of it.
C21_Witness ==
    /\ TwoWindows
    /\ intervalCall.period > 1
    /\ intervalCall.grace % intervalCall.period # 0
    /\ intervalCall.now = intervalCall.earlier.now + intervalCall.period
    /\ intervalCall.result.begin >= intervalCall.earlier.result.end

\* two batches for which intakeJobNameForBatchPath returns the same name
SameJobName(j, k) ==
    /\ ~intakeJobNamePanics(Path(j))
    /\ ~intakeJobNamePanics(Path(k))
    /\ intakeJobNameForBatchPath(Path(j)) = intakeJobNameForBatchPath(Path(k))

\* the intake tasks a run skipped and marked because a job of their name exists
SkippedForJob ==
    {w.task.batch : w \in {v \in markerWrites :
                              v.via = "heal" /\ v.task.type = "intake"}}

\* C22, as stated: a batch that is skipped and marked because a job of its
\* name exists shares that name with no ready batch that differs from it in
\* aggregation ID, time or batch ID.
C22_JobNamesAreUnique ==
    \A k \in SkippedForJob : \A j \in intakeFiles :
        SameJobName(j, k) => Path(j) = Path(k)

\* C22, amended: a batch that is skipped and marked because a job of its
\* name exists shares that name only with ready batches of the same time,
\* the same first 16 characters of the batch ID without '-' and the same
\* 27-character fragment of the aggregation ID.
C22_JobNamesShareFragments ==
    \A k \in SkippedForJob : \A j \in intakeFiles :
        SameJobName(j, k) =>
            /\ Path(j).Time = Path(k).Time
            /\ Take(BatchIDStripped(Path(j)), BatchIDFragmentLength)
                   = Take(BatchIDStripped(Path(k)), BatchIDFragmentLength)
            /\ aggregationJobNameFragment(Path(j).AggregationID, IntakeFragmentLength)
                   = aggregationJobNameFragment(Path(k).AggregationID,
                                                IntakeFragmentLength)

\* C22, witness: a batch was skipped and marked, and a ready batch with
\* another batch ID has the same job name.
C22_Witness ==
    \E k \in SkippedForJob : \E j \in intakeFiles :
        /\ SameJobName(j, k)
        /\ Path(j).ID # Path(k).ID
        /\ (TaskMarkerPrefix \o Marker(IntakeTask(k))) \in bucketObjects

\* the batches of the aggregation tasks passed to Enqueue, each with the
\* aggregation ID of its task
AggregatedBatches ==
    UNION {{<<x[2].AggregationID, k>> : k \in x[2].Batches} :
              x \in {y \in enqueued : y[2].type = "aggregate"}}

\* C23, as stated: every batch of an enqueued aggregation task has a ready own
\* validation with its batch ID under the aggregation ID of the task and with
\* the same batch time.
C23_OwnValidationOfSameAggregation ==
    \A b \in AggregatedBatches :
        \E o \in ownValidationFiles :
            /\ Path(o).ID = Path(b[2]).ID
            /\ Path(o).AggregationID = b[1]
            /\ Path(o).Time = Path(b[2]).Time

\* C23, amended: every batch of an enqueued aggregation task is a ready peer
\* validation under the aggregation ID of the task, and a ready own
\* validation has its batch ID, under whatever aggregation ID and time.
C23_OwnValidationOfSameBatchID ==
    \A b \in AggregatedBatches :
        /\ b[2] \in peerValidationFiles
        /\ Path(b[2]).AggregationID = b[1]
        /\ \E o \in ownValidationFiles : Path(o).ID = Path(b[2]).ID

\* C23, witness: an enqueued aggregation task holds a batch whose only own
\* validations are under another aggregation ID.
C23_Witness ==
    \E b \in AggregatedBatches :
        /\ \E o \in ownValidationFiles : Path(o).ID = Path(b[2]).ID
        /\ \A o \in ownValidationFiles :
               Path(o).ID = Path(b[2]).ID => Path(o).AggregationID # b[1]

\* every publish and every marker write so far has succeeded and every
\* invocation that ended returned normally, none overlapping another
AllSucceeded ==
    /\ ~overlapped
    /\ \A c \in completions : c.out = "ok"
    /\ \A w \in markerWrites : w.res = "ok"
    /\ \A e \in exits : e.how = "done"
    /\ \A p \in Inst : \A g \in goroutines[p] : g.out \in {"none", "ok"}

\* the Enqueue calls for aggregation tasks
AggregationsEnqueued == {x \in enqueued : x[2].type = "aggregate"}

\* C24: over invocations that do not overlap, in which every publish and
\* every marker write succeeds, at most one aggregation task is passed to
\* Enqueue for an aggregation ID and a window, also when further validated
\* batches of the window are listed by a later invocation.
C24_OneAggregationPerWindow ==
    AllSucceeded =>
        \A x, y \in AggregationsEnqueued :
            (/\ x[2].AggregationID = y[2].AggregationID
             /\ x[2].AggregationStart = y[2].AggregationStart
             /\ x[2].AggregationEnd = y[2].AggregationEnd) => x = y

\* C24, witness: an invocation enqueued the aggregation task of a window, a
\* further validation of that window arrived, and a later invocation has
\* run to its end on the listing that holds it.
C24_Witness ==
    /\ AllSucceeded
    /\ \E x \in AggregationsEnqueued : \E k \in LateValidations :
          /\ k \in peerValidationFiles
          /\ k \notin x[2].Batches
          /\ x[2].AggregationID = Path(k).AggregationID
          /\ x[2].AggregationStart <= Path(k).Time
          /\ Path(k).Time < x[2].AggregationEnd
          /\ \E p \in Inst :
                /\ pc[p] = "done"
                /\ run[p] > x[1]
                /\ \E i \in DOMAIN batchesByID[p] : k \in Range(batchesByID[p][i])
                /\ inter[p] = [begin |-> x[2].AggregationStart,
                               end |-> x[2].AggregationEnd]

\* the tasks the inputs of the run of p select: those the loops are to build
\* that have no marker in the set built from the listing and no job
Selected(p) ==
    {t \in Candidates(p) :
        /\ Marker(t) \notin taskMarkers[p]
        /\ ~Panics(t)
        /\ TaskName(t) \notin existingJobs}

\* the clock has not advanced since the run of p read it first
ClockStoodStill(p) == now = intakeWindow[p].begin + maxAge

\* C25, as stated: the tasks a run has passed to Enqueue when it has ended,
\* normally or with a fatal error, are those its listings, the jobs map, the
\* clock and the configuration select.
C25_EnqueuedSetIsDetermined ==
    \A p \in Inst :
        (pc[p] \in {"done", "fatal"} /\ ClockStoodStill(p)) =>
            EnqueuedBy(run[p]) = Selected(p)

\* C25, amended: a run passes to Enqueue only tasks that its listings, the
\* jobs map, the clock and the configuration select, whatever the publish
\* outcomes and the order of completions are, and a run that has returned
\* normally has passed all of them.
C25_EnqueuedSetOfReturnedRun ==
    \A p \in Inst :
        /\ ClockStoodStill(p) => EnqueuedBy(run[p]) \subseteq Selected(p)
        /\ (pc[p] = "done" /\ ClockStoodStill(p)) =>
               EnqueuedBy(run[p]) = Selected(p)

\* C25, witness: a run has returned normally after a publish of its intake
\* phase failed and an intake completion ran while the aggregation phase was
\* under way; it enqueued an intake and an aggregation task.
C25_Witness ==
    \E p \in Inst :
        /\ pc[p] = "done"
        /\ ClockStoodStill(p)
        /\ \E t \in EnqueuedBy(run[p]) : t.type = "aggregate"
        /\ \E c \in completions :
               /\ c.run = run[p]
               /\ c.task.type = "intake"
               /\ c.out = "fail"

====
